---- MODULE Spec2Model ----
(***************************************************************************)
(* Model of the feedback backend (src/main.py): the HTTP handlers          *)
(* create_feedback, list_feedback, analytics_summary, generate_ai_insights *)
(* and the liveness endpoints, over the MongoDB collection "feedback".     *)
(*                                                                         *)
(* Python None and an absent key are both written None.  A document is a   *)
(* record; a Python dict whose order matters (the breakdown, the category  *)
(* counter) is a sequence of <<key, value>> pairs in insertion order.      *)
(***************************************************************************)
EXTENDS Integers, Sequences, FiniteSets, TLC

VARIABLES db, order, feedback, nextId, issued, resp

vars == <<db, order, feedback, nextId, issued, resp>>

(* ---- bounds ---- *)
MaxLegacy == 2      \* documents already in the collection at start-up
MaxPosts == 2       \* successful POST /api/feedback per behaviour
MaxItems == 4       \* items of an insights request in the summarizer model

(* ---- program constants ---- *)
DefaultLimit == 50

None == "<None>"
Handle == "handle"

Recommendation == "Recommended actions: tighten instruction following, prefer concise answers, and ask clarifying questions when intent is ambiguous."
NotConfigured == "Database not configured"

(* ---- generic helpers over sequences ---- *)
Min(a, b) == IF a <= b THEN a ELSE b

Take(s, n) == SubSeq(s, 1, Min(n, Len(s)))

Reverse(s) == [i \in 1..Len(s) |-> s[Len(s) + 1 - i]]

RECURSIVE Filter(_, _)
Filter(s, cat) ==
    IF s = <<>> THEN <<>>
    ELSE IF Head(s).category = cat THEN <<Head(s)>> \o Filter(Tail(s), cat)
    ELSE Filter(Tail(s), cat)

RECURSIVE Join(_, _)
Join(lines, sep) ==
    IF lines = <<>> THEN ""
    ELSE IF Len(lines) = 1 THEN lines[1]
    ELSE lines[1] \o sep \o Join(Tail(lines), sep)

RECURSIVE SumValues(_)
SumValues(d) == IF d = <<>> THEN 0 ELSE d[1][2] + SumValues(Tail(d))

Keys(d) == {d[i][1] : i \in 1..Len(d)}

(* Python truthiness of an Optional[str] *)
Truthy(v) == v # None /\ v # ""

(* str(ObjectId): a non-empty text form of the identifier *)
str(oid) == "oid" \o ToString(oid)

(* datetime.isoformat() *)
isoformat(t) == "T" \o ToString(t)

(* ---- record model ---- *)
RequiredFields == {"question", "response", "improvement", "category"}

(* schemas.Feedback: required string fields present and non-empty *)
Feedback(p) == \A f \in RequiredFields : p[f] # None /\ p[f] # ""

FeedbackCreate_NoValidation(p) == TRUE

FeedbackCreate(p) == Feedback(p)

(* model_dump of a validated Feedback: severity defaults to "medium" *)
model_dump(p) ==
    [question |-> p.question, response |-> p.response,
     improvement |-> p.improvement, category |-> p.category,
     severity |-> IF p.severity = None THEN "medium" ELSE p.severity]

(* FeedbackOut: id, question, response, improvement, category are str;  *)
(* severity and created_at are optional                                   *)
FeedbackOut_AllowNone(d) == TRUE

FeedbackOut(d) ==
    /\ d.id # None
    /\ \A f \in RequiredFields : d[f] # None

(* ---- storage gateway ---- *)
(* database.create_document: stamps the identifier and the timestamp *)
NewDocument(data, oid) ==
    [f \in {"_id", "question", "response", "improvement", "category", "severity", "created_at"} |->
        IF f = "_id" THEN oid
        ELSE IF f = "created_at" THEN oid
        ELSE data[f]]

(* database.get_documents: up to limit documents matching the filter, in *)
(* one consistent order (insertion or most-recent-first)                  *)
get_documents(coll, filt, limit) ==
    LET matching == IF filt = None THEN coll ELSE Filter(coll, filt)
        ordered == IF order = "insertion" THEN matching ELSE Reverse(matching)
    IN Take(ordered, limit)

(* ---- helpers ---- *)
_serialize_InPlace(doc) ==
    LET out == [f \in {"id", "question", "response", "improvement", "category", "severity", "created_at"} |->
                   IF f = "id" THEN str(doc["_id"])
                   ELSE IF f = "created_at" THEN isoformat(doc[f])
                   ELSE doc[f]]
    IN [out |-> out, arg |-> out]

_serialize_NoId(doc) ==
    LET out == [f \in {"id", "question", "response", "improvement", "category", "severity", "created_at"} |->
                   IF f = "id" THEN ""
                   ELSE IF f = "created_at" THEN isoformat(doc[f])
                   ELSE doc[f]]
    IN [out |-> out, arg |-> doc]

(* _serialize works on a copy: out is the returned dict, arg the state of *)
(* the caller's dict after the call                                       *)
_serialize(doc) ==
    LET out == [f \in {"id", "question", "response", "improvement", "category", "severity", "created_at"} |->
                   IF f = "id" THEN str(doc["_id"])
                   ELSE IF f = "created_at" THEN isoformat(doc[f])
                   ELSE doc[f]]
    IN [out |-> out, arg |-> doc]

(* ---- inputs ---- *)
(* submissions: complete ones, and ones with one or all of the required *)
(* fields absent or the category empty                                    *)
Complete(sev) ==
    [question |-> "q", response |-> "r", improvement |-> "i",
     category |-> "tone", severity |-> sev]

Payloads ==
    {Complete(None), Complete("high")}
    \cup {[Complete(None) EXCEPT ![f] = None] : f \in {"question", "response", "improvement", "category"}}
    \cup {[Complete("high") EXCEPT !.category = ""]}
    \cup {[f \in {"question", "response", "improvement", "category", "severity"} |-> None]}

Limits == {1, DefaultLimit}

CategoryParams == {None, "", "tone", "Tone"}

LegacyCategories == {None, "", "Unknown"}

ItemCategories == {None, "", "Unknown", "tone", "accuracy"}

Scopes == {"all", "week"}

LegacyDocument(oid, cat) ==
    [f \in {"_id", "question", "response", "improvement", "category", "severity", "created_at"} |->
        IF f = "_id" THEN oid
        ELSE IF f = "created_at" THEN oid
        ELSE IF f = "category" THEN cat
        ELSE IF f = "severity" THEN "medium"
        ELSE "legacy"]

(* contents of the collection when the process starts: any few documents   *)
(* (the collection is schemaless, so category may be null or empty), or a  *)
(* collection one short of the default page size                           *)
InitialCollections ==
    UNION {{[i \in 1..n |-> LegacyDocument(i, c[i])] : c \in [1..n -> LegacyCategories]} : n \in 0..MaxLegacy}
    \cup {[i \in 1..(DefaultLimit - 1) |-> LegacyDocument(i, "accuracy")]}

Item(cat) ==
    [id |-> "oid0", question |-> "q", response |-> "r", improvement |-> "i",
     category |-> cat, severity |-> "medium", created_at |-> None]

(* insights requests of the full API model *)
SampleItemLists == {<<>>, <<Item("tone")>>, <<Item(None)>>, <<Item("tone"), Item("")>>}

ItemLists(n) == UNION {[1..k -> {Item(c) : c \in ItemCategories}] : k \in 0..n}

(* ---- initial state ---- *)
Init ==
    /\ db \in {None, Handle}
    /\ order \in {"insertion", "recent"}
    /\ feedback \in InitialCollections
    /\ nextId = Len(feedback) + 1
    /\ issued = <<>>
    /\ resp = [op |-> "start", status |-> 0]

(* ---- liveness endpoints ---- *)
read_root ==
    /\ resp' = [op |-> "root", status |-> 200,
                body |-> [message |-> "Hello from FastAPI Backend!"]]
    /\ UNCHANGED <<db, order, feedback, nextId, issued>>

hello ==
    /\ resp' = [op |-> "hello", status |-> 200,
                body |-> [message |-> "Hello from the backend API!"]]
    /\ UNCHANGED <<db, order, feedback, nextId, issued>>

test_database ==
    /\ \/ /\ db # None
          /\ resp' = [op |-> "test", status |-> 200,
                      body |-> [backend |-> "Running", database |-> "Connected & Working",
                                connection_status |-> "Connected",
                                collections |-> Take(<<"feedback">>, 10)]]
       \/ /\ db # None
          /\ resp' = [op |-> "test", status |-> 200,
                      body |-> [backend |-> "Running", database |-> "Connected but Error",
                                connection_status |-> "Connected",
                                collections |-> <<>>]]
       \/ /\ db = None
          /\ resp' = [op |-> "test", status |-> 200,
                      body |-> [backend |-> "Running", database |-> "Available but not initialized",
                                connection_status |-> "Not Connected",
                                collections |-> <<>>]]
    /\ UNCHANGED <<db, order, feedback, nextId, issued>>

(* ---- POST /api/feedback ---- *)
create_document(payload) ==
    /\ Len(issued) < MaxPosts
    /\ feedback' = Append(feedback, NewDocument(model_dump(payload), nextId))
    /\ nextId' = nextId + 1
    /\ issued' = Append(issued, str(nextId))
    /\ resp' = [op |-> "create", status |-> 200, req |-> payload,
                body |-> [id |-> str(nextId)], store_op |-> "insert"]
    /\ UNCHANGED <<db, order>>

create_feedback_NoDbCheck(payload) ==
    IF ~FeedbackCreate(payload)
    THEN /\ resp' = [op |-> "create", status |-> 422, req |-> payload,
                     detail |-> "validation error", store_op |-> "none"]
         /\ UNCHANGED <<db, order, feedback, nextId, issued>>
    ELSE create_document(payload)

create_feedback(payload) ==
    IF ~FeedbackCreate(payload)
    THEN /\ resp' = [op |-> "create", status |-> 422, req |-> payload,
                     detail |-> "validation error", store_op |-> "none"]
         /\ UNCHANGED <<db, order, feedback, nextId, issued>>
    ELSE IF db = None
    THEN /\ resp' = [op |-> "create", status |-> 500, req |-> payload,
                     detail |-> NotConfigured, store_op |-> "none"]
         /\ UNCHANGED <<db, order, feedback, nextId, issued>>
    ELSE create_document(payload)

(* ---- GET /api/feedback ---- *)
(* the POST this request immediately follows, if any *)
PrecedingPost ==
    IF resp.op = "create" /\ resp.status = 200
    THEN [posted |-> TRUE, id |-> resp.body.id, payload |-> resp.req]
    ELSE [posted |-> FALSE]

list_feedback(limit, category) ==
    IF db = None
    THEN /\ resp' = [op |-> "list", status |-> 500,
                     req |-> [limit |-> limit, category |-> category],
                     detail |-> NotConfigured, store_op |-> "none", post |-> PrecedingPost]
         /\ UNCHANGED <<db, order, feedback, nextId, issued>>
    ELSE
        LET filt == IF Truthy(category) THEN category ELSE None
            docs == get_documents(feedback, filt, limit)
            ser == [i \in 1..Len(docs) |-> _serialize(docs[i])]
            out == [i \in 1..Len(docs) |-> ser[i].out]
            args == [i \in 1..Len(docs) |-> ser[i].arg]
        IN /\ resp' = IF \A i \in 1..Len(out) : FeedbackOut(out[i])
                      THEN [op |-> "list", status |-> 200,
                            req |-> [limit |-> limit, category |-> category],
                            body |-> out, docs |-> docs, args |-> args,
                            store_op |-> "find", post |-> PrecedingPost]
                      ELSE [op |-> "list", status |-> 500,
                            req |-> [limit |-> limit, category |-> category],
                            detail |-> "Internal Server Error", docs |-> docs, args |-> args,
                            store_op |-> "find", post |-> PrecedingPost]
           /\ UNCHANGED <<db, order, feedback, nextId, issued>>

(* ---- GET /api/analytics/summary ---- *)
Categories(coll) == {coll[i].category : i \in 1..Len(coll)}

Count(coll, cat) == Cardinality({i \in 1..Len(coll) : coll[i].category = cat})

(* $group by category then $sort by count descending: one group per       *)
(* distinct category (null and missing together), ties in any order        *)
RECURSIVE SortedGroups(_, _)
SortedGroups(coll, cats) ==
    IF cats = {} THEN {<<>>}
    ELSE LET top == {c \in cats : \A e \in cats : Count(coll, c) >= Count(coll, e)}
         IN UNION {{<<[_id |-> c, count |-> Count(coll, c)]>> \o t :
                        t \in SortedGroups(coll, cats \ {c})} : c \in top}

aggregate(coll) == SortedGroups(coll, Categories(coll))

(* d[k] = v on an insertion-ordered dict *)
RECURSIVE DictSet(_, _, _)
DictSet(d, k, v) ==
    IF d = <<>> THEN <<<<k, v>>>>
    ELSE IF d[1][1] = k THEN <<<<k, v>>>> \o Tail(d)
    ELSE <<d[1]>> \o DictSet(Tail(d), k, v)

RECURSIVE DictGet(_, _, _)
DictGet(d, k, default) ==
    IF d = <<>> THEN default
    ELSE IF d[1][1] = k THEN d[1][2]
    ELSE DictGet(Tail(d), k, default)

(* item["_id"] or "Unknown" *)
Label(id) == IF Truthy(id) THEN id ELSE "Unknown"

RECURSIVE BreakdownFrom(_, _)
BreakdownFrom(agg, acc) ==
    IF agg = <<>> THEN acc
    ELSE BreakdownFrom(Tail(agg), DictSet(acc, Label(agg[1]["_id"]), agg[1].count))

Summarize(agg) ==
    LET breakdown == BreakdownFrom(agg, <<>>)
        total == SumValues(breakdown)
    IN /\ resp' = [op |-> "summary", status |-> 200, agg |-> agg,
                   body |-> [total |-> total, breakdown |-> breakdown],
                   store_op |-> "aggregate"]
       /\ UNCHANGED <<db, order, feedback, nextId, issued>>

AggregateFails ==
    /\ resp' = [op |-> "summary", status |-> 500, detail |-> "aggregation error",
                store_op |-> "aggregate"]
    /\ UNCHANGED <<db, order, feedback, nextId, issued>>

analytics_summary ==
    IF db = None
    THEN /\ resp' = [op |-> "summary", status |-> 500, detail |-> NotConfigured,
                     store_op |-> "none"]
         /\ UNCHANGED <<db, order, feedback, nextId, issued>>
    ELSE \/ \E agg \in aggregate(feedback) : Summarize(agg)
         \/ AggregateFails

(* ---- POST /api/analytics/insights ---- *)
InsightRequest(req) == \A i \in 1..Len(req.items) : FeedbackOut(req.items[i])

RECURSIVE CountCategories(_, _)
CountCategories(items, categories) ==
    IF items = <<>> THEN categories
    ELSE CountCategories(Tail(items),
             DictSet(categories, items[1].category,
                     DictGet(categories, items[1].category, 0) + 1))

(* insert x behind every pair whose count is not smaller: stable, descending *)
RECURSIVE InsertDesc(_, _)
InsertDesc(s, x) ==
    IF s = <<>> THEN <<x>>
    ELSE IF s[1][2] >= x[2] THEN <<s[1]>> \o InsertDesc(Tail(s), x)
    ELSE <<x>> \o s

RECURSIVE SortFrom(_, _)
SortFrom(pairs, acc) ==
    IF pairs = <<>> THEN acc
    ELSE SortFrom(Tail(pairs), InsertDesc(acc, pairs[1]))

sorted_NoReverse(pairs) == Reverse(SortFrom(Reverse(pairs), <<>>))

(* sorted(categories.items(), key=lambda x: x[1], reverse=True) *)
sorted(pairs) == SortFrom(pairs, <<>>)

Entry(kv) == kv[1] \o ": " \o ToString(kv[2])

SummaryLines_NoGuard(total, top) ==
    <<"Analyzed " \o ToString(total) \o " feedback item(s).">>
    \o <<"Most frequent issues: " \o Join([i \in 1..Len(Take(top, 3)) |-> Entry(top[i])], ", ") \o ".">>
    \o <<Recommendation>>

SummaryLines(total, top) ==
    <<"Analyzed " \o ToString(total) \o " feedback item(s).">>
    \o (IF top # <<>>
        THEN <<"Most frequent issues: " \o Join([i \in 1..Len(Take(top, 3)) |-> Entry(top[i])], ", ") \o ".">>
        ELSE <<>>)
    \o (IF total > 0 THEN <<Recommendation>> ELSE <<>>)

generate_ai_insights(req) ==
    IF ~InsightRequest(req)
    THEN /\ resp' = [op |-> "insights", status |-> 422, req |-> req,
                     detail |-> "validation error", store_op |-> "none"]
         /\ UNCHANGED <<db, order, feedback, nextId, issued>>
    ELSE
        LET total == Len(req.items)
            categories == CountCategories(req.items, <<>>)
            top == sorted(categories)
            summary_lines == SummaryLines(total, top)
        IN /\ resp' = [op |-> "insights", status |-> 200, req |-> req,
                       categories |-> categories, top |-> top,
                       summary_lines |-> summary_lines,
                       body |-> [summary |-> Join(summary_lines, " ")],
                       store_op |-> "none"]
           /\ UNCHANGED <<db, order, feedback, nextId, issued>>

(* ---- specifications ---- *)
Next ==
    \/ read_root
    \/ hello
    \/ test_database
    \/ \E payload \in Payloads : create_feedback(payload)
    \/ \E limit \in Limits, category \in CategoryParams : list_feedback(limit, category)
    \/ analytics_summary
    \/ \E items \in SampleItemLists, scope \in Scopes :
           generate_ai_insights([items |-> items, scope |-> scope])

Spec == Init /\ [][Next]_vars

(* the summarizer alone, over longer item lists *)
InitInsights ==
    /\ db = None
    /\ order = "insertion"
    /\ feedback = <<>>
    /\ nextId = 1
    /\ issued = <<>>
    /\ resp = [op |-> "start", status |-> 0]

NextInsights ==
    /\ resp.op = "start"
    /\ \E items \in ItemLists(MaxItems), scope \in Scopes :
           generate_ai_insights([items |-> items, scope |-> scope])

SpecInsights == InitInsights /\ [][NextInsights]_vars

(* ---- properties ---- *)
Distinct(ids) == \A i, j \in 1..Len(ids) : i # j => ids[i] # ids[j]

(* the serialized record out is the submission payload stored under id *)
Matches(out, id, payload) ==
    /\ out.id = id
    /\ out.question = payload.question
    /\ out.response = payload.response
    /\ out.improvement = payload.improvement
    /\ out.category = payload.category
    /\ out.severity = (IF payload.severity = None THEN "medium" ELSE payload.severity)

DefaultListAfterPost ==
    /\ resp.op = "list"
    /\ resp.post.posted
    /\ resp.req.category = None
    /\ resp.req.limit = DefaultLimit

Listed == resp.status = 200 /\ \E i \in 1..Len(resp.body) : Matches(resp.body[i], resp.post.id, resp.post.payload)

(* every stored document has the required fields, as POST creates them *)
WellFormed(coll) == \A i \in 1..Len(coll) : \A f \in RequiredFields : coll[i][f] # None

C2_Claim ==
    (resp.op = "summary" /\ resp.status = 200) =>
        /\ resp.body.total = SumValues(resp.body.breakdown)
        /\ resp.body.total = Len(feedback)

C4_MissingField ==
    [][(resp'.op = "create" /\ \E f \in RequiredFields : resp'.req[f] = None) =>
        /\ resp'.status = 422
        /\ "body" \notin DOMAIN resp'
        /\ feedback' = feedback
        /\ issued' = issued]_vars

C4_Witness ==
    /\ db # None /\ resp.op = "create" /\ resp.status = 422
    /\ resp.req.category = None /\ resp.req.question # None

(* C5 as stated: GET /api/feedback?category=X (X supplied, possibly empty) *)
(* returns only records of category X, at most limit of them.              *)
C5_Claim ==
    (resp.op = "list" /\ resp.status = 200 /\ resp.req.category # None) =>
        /\ \A i \in 1..Len(resp.body) : resp.body[i].category = resp.req.category
        /\ Len(resp.body) <= resp.req.limit

Relabel(cat) == IF cat = None THEN "Unknown" ELSE cat

(* C6 as stated: the breakdown has one entry per distinct category (null   *)
(* relabelled "Unknown"), each count is the number of documents of that    *)
(* category, and the entries are in descending order of count.             *)
C6_Claim ==
    (resp.op = "summary" /\ resp.status = 200) =>
        LET breakdown == resp.body.breakdown IN
        /\ Keys(breakdown) = {Relabel(c) : c \in Categories(feedback)}
        /\ \A i \in 1..Len(breakdown) :
               breakdown[i][2] = Cardinality({j \in 1..Len(feedback) :
                                                 Relabel(feedback[j].category) = breakdown[i][1]})
        /\ \A i, j \in 1..Len(breakdown) : i < j => breakdown[i][2] >= breakdown[j][2]

ItemCount(items, cat) == Cardinality({i \in 1..Len(items) : items[i].category = cat})

FirstIndex(items, cat) == CHOOSE i \in 1..Len(items) :
    items[i].category = cat /\ \A j \in 1..(i - 1) : items[j].category # cat

(* C7: the summary is the space-joined lines: always the "Analyzed n"      *)
(* line, the "Most frequent issues" line iff a category exists, the        *)
(* recommendation iff n > 0; the empty list gives the first line alone.    *)
C7_Summary ==
    (resp.op = "insights" /\ \A i \in 1..Len(resp.req.items) : resp.req.items[i].category # None) =>
        LET items == resp.req.items
            n == Len(items)
            some == {items[i].category : i \in 1..n} # {}
            lines == resp.summary_lines
            listed == Take(resp.top, 3)
        IN /\ resp.status = 200
           /\ Len(lines) = 1 + (IF some THEN 1 ELSE 0) + (IF n > 0 THEN 1 ELSE 0)
           /\ lines[1] = "Analyzed " \o ToString(n) \o " feedback item(s)."
           /\ some => lines[2] = "Most frequent issues: "
                                  \o Join([i \in 1..Len(listed) |-> listed[i][1] \o ": " \o ToString(listed[i][2])], ", ")
                                  \o "."
           /\ n > 0 => lines[Len(lines)] = Recommendation
           /\ resp.body.summary = Join(lines, " ")
           /\ n = 0 => resp.body.summary = "Analyzed 0 feedback item(s)."
           /\ items = <<Item("tone")>> =>
                  resp.body.summary = "Analyzed 1 feedback item(s). Most frequent issues: tone: 1. " \o Recommendation

C7_Witness ==
    /\ resp.op = "insights" /\ resp.status = 200 /\ resp.req.items = <<>>
    /\ resp.body.summary = "Analyzed 0 feedback item(s)."

(* C8: the "Most frequent issues" line lists min(3, distinct categories)   *)
(* entries "category: n" with n the number of items of the category, in    *)
(* descending order of n, no omitted category outnumbering a listed one,   *)
(* equal counts in order of first occurrence; [tone, tone, accuracy]       *)
(* gives "tone: 2, accuracy: 1" with total 3.                              *)
C8_TopThree ==
    (resp.op = "insights" /\ resp.status = 200 /\ resp.req.items # <<>>) =>
        LET items == resp.req.items
            cats == {items[i].category : i \in 1..Len(items)}
            listed == Take(resp.top, 3)
            shown == {listed[i][1] : i \in 1..Len(listed)}
        IN /\ Len(listed) = Min(3, Cardinality(cats))
           /\ Cardinality(shown) = Len(listed)
           /\ shown \subseteq cats
           /\ \A i \in 1..Len(listed) : listed[i][2] = ItemCount(items, listed[i][1])
           /\ \A i, j \in 1..Len(listed) : i < j =>
                  /\ listed[i][2] >= listed[j][2]
                  /\ listed[i][2] = listed[j][2] =>
                         FirstIndex(items, listed[i][1]) < FirstIndex(items, listed[j][1])
           /\ \A c \in cats \ shown : \A d \in shown : ItemCount(items, c) <= ItemCount(items, d)
           /\ resp.summary_lines[2] = "Most frequent issues: "
                  \o Join([i \in 1..Len(listed) |-> listed[i][1] \o ": " \o ToString(listed[i][2])], ", ")
                  \o "."
           /\ items = <<Item("tone"), Item("tone"), Item("accuracy")>> =>
                  /\ resp.summary_lines[1] = "Analyzed 3 feedback item(s)."
                  /\ resp.summary_lines[2] = "Most frequent issues: tone: 2, accuracy: 1."

C8_Witness ==
    /\ resp.op = "insights" /\ resp.status = 200
    /\ Len(resp.top) = 4
    /\ resp.top[1][2] = 1
    /\ resp.top[1][1] = "accuracy"

C10_Frame ==
    [][/\ feedback' # feedback =>
              /\ resp'.op = "create" /\ resp'.status = 200
              /\ Len(feedback') = Len(feedback) + 1
              /\ SubSeq(feedback', 1, Len(feedback)) = feedback
       /\ resp'.op \in {"root", "hello", "test", "list", "summary", "insights"} =>
              feedback' = feedback
       /\ (resp'.op = "list" /\ resp'.store_op = "find") => resp'.args = resp'.docs]_vars

C10_Witness ==
    /\ resp.op = "list" /\ resp.status = 200
    /\ Len(resp.docs) > 0 /\ resp.args = resp.docs
    /\ Len(issued) > 0

====
